---- MODULE Spec2Model ----
(***************************************************************************)
(* Model of the ACL cog of pumpkin.py (modules/base/acl/module.py):        *)
(* the permission-group commands (list, add, update, remove), the rule     *)
(* commands (export, remove, flush, import) and the helper import_rules.   *)
(* One tenant (guild) is modelled: every store call of the cog passes      *)
(* ctx.guild.id, so tenants never interact.                                *)
(***************************************************************************)
EXTENDS Integers, Sequences, FiniteSets, TLC

VARIABLES
    groups,     \* ACL_group rows of the guild, in ACL_group.get_all order
    rules,      \* ACL_rule rows of the guild, in ACL_rule.get_all order
    pc,         \* position of the running handler: "idle", "bfs", "flush"
    queue,      \* acl_group_list.bfs: local queue (indices into groups)
    visited,    \* acl_group_list.bfs: local visited (indices into groups)
    children,   \* group.children of every fetched group object
    level,      \* group.level of every fetched group object
    reply,      \* what the last handler sent back / left in its locals
    artifact,   \* content of the last exported JSON file
    auth        \* the authorization query and its decision

vars == <<groups, rules, pc, queue, visited, children, level, reply, artifact,
          auth>>


(***************************************************************************)
(* Bounds of the model.                                                    *)
(***************************************************************************)
MaxGroups == 3
MaxRules == 2
MaxDoc == 2

(***************************************************************************)
(* Python values.                                                          *)
(***************************************************************************)
\* Python's None where a string is expected (ACL_group.parent).
None == "<None>"

\* The characters of the strings the commands are given.
Chars(s) ==
    CASE s = "" -> <<>>
      [] s = "admin" -> <<"a", "d", "m", "i", "n">>
      [] s = "mod" -> <<"m", "o", "d">>
      [] s = "Sub-mod" -> <<"S", "u", "b", "-", "m", "o", "d">>
      [] s = "mod1" -> <<"m", "o", "d", "1">>
      [] s = "111" -> <<"1", "1", "1">>
      [] s = "0" -> <<"0">>
      [] s = "ghost" -> <<"g", "h", "o", "s", "t">>

Lower == {"a", "b", "d", "g", "h", "i", "m", "n", "o", "s", "t", "u"}
Upper == {"S"}
Digits == {"0", "1"}

\* re.fullmatch(r"[a-zA-Z-]+", s) is not None
FullMatchName(s) ==
    /\ Len(Chars(s)) >= 1
    /\ \A i \in 1..Len(Chars(s)) : Chars(s)[i] \in Lower \cup Upper \cup {"-"}

\* int(value) succeeds on a decimal string; otherwise Python raises ValueError.
IsIntLiteral(s) ==
    /\ Len(Chars(s)) >= 1
    /\ \A i \in 1..Len(Chars(s)) : Chars(s)[i] \in Digits

IntOf(s) ==
    CASE s = "0" -> 0
      [] s = "111" -> 111

(***************************************************************************)
(* Inputs of the group commands.                                           *)
(***************************************************************************)
NameInputs == {"admin", "mod", "Sub-mod", "mod1"}
ParentInputs == {"", "admin", "mod", "Sub-mod"}
RoleInputs == {111}
RoleValueInputs == {"111", "mod"}
ParamInputs == {"name", "parent", "role_id", "colour"}

(***************************************************************************)
(* Sequence helpers.                                                       *)
(***************************************************************************)
Range(s) == {s[i] : i \in 1..Len(s)}

RemoveAt(s, i) == SubSeq(s, 1, i - 1) \o SubSeq(s, i + 1, Len(s))

\* Index of the first element of s satisfying Test, 0 when there is none.
FirstIndex(s, Test(_)) ==
    IF \E i \in 1..Len(s) : Test(s[i])
    THEN CHOOSE i \in 1..Len(s) : Test(s[i]) /\ \A j \in 1..(i - 1) : ~Test(s[j])
    ELSE 0

(***************************************************************************)
(* The group store (database.acl.ACL_group).                               *)
(***************************************************************************)
\* ACL_group.get(guild_id, name): index of the row, 0 for None.
GroupGet(gs, name) == LET Named(g) == g.name = name IN FirstIndex(gs, Named)

\* ACL_group.add(guild_id, name, parent, role_id): names are unique in a guild.
GroupAdd(gs, name, parent, role_id) ==
    IF GroupGet(gs, name) # 0
    THEN gs
    ELSE Append(gs, [name |-> name, parent |-> parent, role_id |-> role_id])

\* group.save() of the row at index i, changed to g.
GroupSave(gs, i, g) ==
    IF \E j \in 1..Len(gs) : j # i /\ gs[j].name = g.name
    THEN gs
    ELSE [gs EXCEPT ![i] = g]

\* ACL_group.remove(guild_id, name): the rows left.
GroupRemove(gs, name) ==
    LET i == GroupGet(gs, name) IN IF i = 0 THEN gs ELSE RemoveAt(gs, i)

\* ACL_group.remove(guild_id, name): the value returned.
GroupRemoveResult(gs, name) == IF GroupGet(gs, name) = 0 THEN -1 ELSE 1

(***************************************************************************)
(* acl group list (lines 35-80).                                           *)
(***************************************************************************)
\* One pass of the loop of lines 46-52 for the group at index i.
RelationshipsStep(rel, gs, i) ==
    LET g == gs[i]
        r1 == IF g.name \in DOMAIN rel THEN rel ELSE rel @@ (g.name :> <<>>)
        r2 == IF g.parent = None \/ g.parent \in DOMAIN r1
              THEN r1
              ELSE r1 @@ (g.parent :> <<>>)
    IN  IF g.parent = None
        THEN r1
        ELSE [r2 EXCEPT ![g.parent] = Append(@, i)]

RECURSIVE RelationshipsUpTo(_, _)
RelationshipsUpTo(gs, n) ==
    IF n = 0 THEN <<>> ELSE RelationshipsStep(RelationshipsUpTo(gs, n - 1), gs, n)

\* relationships after the loop of lines 45-52: name -> the groups naming it
\* as their parent, in the order of the fetched list.
Relationships(gs) == RelationshipsUpTo(gs, Len(gs))

\* group.children of every fetched group (line 56).
ChildrenOf(gs) == [i \in 1..Len(gs) |-> Relationships(gs)[gs[i].name]]

\* The loop of lines 66-67: child.level = group.level + 1, one child after
\* the other (group may be among its own children).
RECURSIVE SetChildLevels(_, _, _)
SetChildLevels(lv, group, cs) ==
    IF cs = <<>>
    THEN lv
    ELSE SetChildLevels([lv EXCEPT ![Head(cs)] = lv[group] + 1], group, Tail(cs))

\* The rows of the table of lines 71-78: "  " * level is kept as the level.
Rendered(gs, order, lv) ==
    [k \in 1..Len(order) |->
        [name |-> gs[order[k]].name, level |-> lv[order[k]],
         role |-> gs[order[k]].role_id]]

NoReply == [op |-> "none", status |-> "none", listing |-> <<>>]

GroupReply(op, status) == [op |-> op, status |-> status, listing |-> <<>>]

\* Lines 38-57 and the call bfs(groups) of line 73.
acl_group_list_start ==
    /\ pc = "idle"
    /\ IF Len(groups) = 0
       THEN /\ reply' = GroupReply("list", "none")
            /\ UNCHANGED <<pc, queue, visited, children, level>>
       ELSE /\ children' = ChildrenOf(groups)
            /\ level' = [i \in 1..Len(groups) |-> 0]
            /\ queue' = [i \in 1..Len(groups) |-> i]
            /\ visited' = <<>>
            /\ pc' = "bfs"
            /\ reply' = GroupReply("list", "running")
    /\ UNCHANGED <<groups, rules, artifact, auth>>

\* bfs with line 68 written as "queue = group.children": the groups still
\* waiting in the queue are dropped.
bfs_iteration_drops_queue ==
    /\ pc = "bfs"
    /\ queue # <<>>
    /\ LET group == Head(queue)
           rest == Tail(queue)
       IN  IF group \notin Range(visited)
           THEN /\ visited' = Append(visited, group)
                /\ level' = SetChildLevels(level, group, children[group])
                /\ queue' = children[group]
           ELSE /\ queue' = rest
                /\ UNCHANGED <<visited, level>>
    /\ UNCHANGED <<groups, rules, pc, children, reply, artifact, auth>>

\* One iteration of the while loop of bfs (lines 61-68).
bfs_iteration ==
    /\ pc = "bfs"
    /\ queue # <<>>
    /\ LET group == Head(queue)
           rest == Tail(queue)
       IN  IF group \notin Range(visited)
           THEN /\ visited' = Append(visited, group)
                /\ level' = SetChildLevels(level, group, children[group])
                /\ queue' = children[group] \o rest
           ELSE /\ queue' = rest
                /\ UNCHANGED <<visited, level>>
    /\ UNCHANGED <<groups, rules, pc, children, reply, artifact, auth>>

\* The loop has ended (line 69): the table is built and sent (lines 71-80).
acl_group_list_reply ==
    /\ pc = "bfs"
    /\ queue = <<>>
    /\ reply' = [op |-> "list", status |-> "listed",
                 listing |-> Rendered(groups, visited, level)]
    /\ pc' = "idle"
    /\ queue' = <<>>
    /\ visited' = <<>>
    /\ children' = <<>>
    /\ level' = <<>>
    /\ UNCHANGED <<groups, rules, artifact, auth>>

(***************************************************************************)
(* acl group add / update / remove (lines 92-171).                         *)
(***************************************************************************)
acl_group_add(name, parent, role_id) ==
    /\ pc = "idle"
    /\ IF ~FullMatchName(name)
       THEN /\ reply' = GroupReply("add", "bad name")
            /\ UNCHANGED groups
       ELSE /\ Len(groups) < MaxGroups
            /\ groups' = GroupAdd(groups, name,
                                  IF Len(Chars(parent)) = 0 THEN None ELSE parent,
                                  role_id)
            /\ reply' = GroupReply("add", "added")
    /\ UNCHANGED <<rules, pc, queue, visited, children, level, artifact,
                   auth>>

acl_group_update(name, param, value) ==
    /\ pc = "idle"
    /\ LET i == GroupGet(groups, name)
       IN  IF i = 0
           THEN /\ reply' = GroupReply("update", "none")
                /\ UNCHANGED groups
           ELSE IF param = "name"
           THEN IF ~FullMatchName(name)
                THEN /\ reply' = GroupReply("update", "bad name")
                     /\ UNCHANGED groups
                ELSE /\ groups' = GroupSave(groups, i,
                                            [groups[i] EXCEPT !.name = value])
                     /\ reply' = GroupReply("update", "updated")
           ELSE IF param = "parent"
           THEN /\ groups' = GroupSave(groups, i,
                                       [groups[i] EXCEPT !.parent = value])
                /\ reply' = GroupReply("update", "updated")
           ELSE IF param = "role_id"
           THEN IF ~IsIntLiteral(value)
                THEN /\ reply' = GroupReply("update", "ValueError")
                     /\ UNCHANGED groups
                ELSE /\ groups' = GroupSave(groups, i,
                                            [groups[i] EXCEPT !.role_id = IntOf(value)])
                     /\ reply' = GroupReply("update", "updated")
           ELSE /\ reply' = GroupReply("update", "bad parameter")
                /\ UNCHANGED groups
    /\ UNCHANGED <<rules, pc, queue, visited, children, level, artifact,
                   auth>>

acl_group_remove(name) ==
    /\ pc = "idle"
    /\ groups' = GroupRemove(groups, name)
    /\ reply' = IF GroupRemoveResult(groups, name) < 0
                THEN GroupReply("remove", "none")
                ELSE GroupReply("remove", "removed")
    /\ UNCHANGED <<rules, pc, queue, visited, children, level, artifact,
                   auth>>

\* The value a caller passes with each param of acl group update.
ValueInputs(param) ==
    CASE param = "name" -> NameInputs
      [] param = "parent" -> ParentInputs
      [] param = "role_id" -> RoleValueInputs
      [] OTHER -> {"mod"}

NoAuth == [asked |-> FALSE]

GroupInit ==
    /\ groups = <<>>
    /\ rules = <<>>
    /\ pc = "idle"
    /\ queue = <<>>
    /\ visited = <<>>
    /\ children = <<>>
    /\ level = <<>>
    /\ reply = NoReply
    /\ artifact = <<>>
    /\ auth = NoAuth

AddGroup == \E n \in NameInputs, p \in ParentInputs, r \in RoleInputs :
    acl_group_add(n, p, r)

UpdateGroup == \E n \in NameInputs, p \in ParamInputs :
    \E v \in ValueInputs(p) : acl_group_update(n, p, v)

RemoveGroup == \E n \in NameInputs : acl_group_remove(n)

GroupNext ==
    \/ AddGroup
    \/ UpdateGroup
    \/ RemoveGroup
    \/ acl_group_list_start
    \/ bfs_iteration
    \/ acl_group_list_reply

SpecGroups == GroupInit /\ [][GroupNext]_vars

\* The interpreter runs the loop of bfs and the lines after it without
\* yielding: a started listing always takes its next step.
FairSpecGroups ==
    SpecGroups /\ WF_vars(bfs_iteration) /\ WF_vars(acl_group_list_reply)

(***************************************************************************)
(* JSON documents as json.load returns them: every value carries its       *)
(* Python type.                                                            *)
(***************************************************************************)
PyBool(b) == [t |-> "bool", b |-> b, n |-> 0, s |-> "", l |-> <<>>]
PyInt(n) == [t |-> "int", b |-> FALSE, n |-> n, s |-> "", l |-> <<>>]
PyStr(s) == [t |-> "str", b |-> FALSE, n |-> 0, s |-> s, l |-> <<>>]
PyList(l) == [t |-> "list", b |-> FALSE, n |-> 0, s |-> "", l |-> l]
PyMethod(name) == [t |-> "builtin_function_or_method", b |-> FALSE, n |-> 0,
                   s |-> name, l |-> <<>>]

\* A dict with the given keys: Python dicts are modelled as functions.
EmptyDict == <<>>

DictSet(d, k, v) == [x \in (DOMAIN d) \cup {k} |-> IF x = k THEN v ELSE d[x]]

DictDel(d, k) == [x \in (DOMAIN d) \ {k} |-> d[x]]

\* The attributes of a dict object (its methods): what getattr can find on
\* a value decoded from a JSON object.  The keys of the dict are not
\* attributes.
DictAttributes ==
    {"clear", "copy", "fromkeys", "get", "items", "keys", "pop", "popitem",
     "setdefault", "update", "values"}

\* getattr(obj, name, default) on a dict obj.
getattr(obj, name, default) ==
    IF name \in DictAttributes THEN PyMethod(name) ELSE default

\* x == True / x == False in Python: bool is a subclass of int.
PyEqualsBool(x, b) ==
    \/ x.t = "bool" /\ x.b = b
    \/ x.t = "int" /\ x.n = (IF b THEN 1 ELSE 0)

\* The elements a for loop over x visits (x is a list wherever the loops of
\* import_rules run).
PyIter(x) == IF x.t = "list" THEN x.l ELSE <<>>

(***************************************************************************)
(* The rule store (database.acl.ACL_rule).                                 *)
(***************************************************************************)
GuildId == "guild"

\* ACL_rule.get(guild_id, command): index of the row, 0 for None.
RuleGet(rs, command) ==
    LET Named(r) == r.command = command IN FirstIndex(rs, Named)

\* ACL_rule.add(guild_id, command, default): a rule with empty lists; the
\* command is unique in a guild, an existing rule is overwritten.
RuleAdd(rs, command, default) ==
    LET row == [command |-> command, default |-> default,
                users_allow |-> <<>>, users_deny |-> <<>>,
                groups_allow |-> <<>>, groups_deny |-> <<>>]
        i == RuleGet(rs, command)
    IN  IF i = 0 THEN Append(rs, row) ELSE [rs EXCEPT ![i] = row]

\* ACL_rule.remove(guild_id, command): the rows left, and the count removed.
RuleRemove(rs, command) ==
    LET i == RuleGet(rs, command) IN IF i = 0 THEN rs ELSE RemoveAt(rs, i)

RuleRemoveCount(rs, command) == IF RuleGet(rs, command) = 0 THEN 0 ELSE 1

\* rule.to_dict() of the row at index i.
RuleToDict(rs, i) ==
    [id |-> PyInt(i), guild_id |-> PyStr(GuildId),
     command |-> PyStr(rs[i].command),
     default |-> PyBool(rs[i].default),
     users_allow |-> PyList([k \in 1..Len(rs[i].users_allow) |->
                                PyInt(rs[i].users_allow[k])]),
     users_deny |-> PyList([k \in 1..Len(rs[i].users_deny) |->
                                PyInt(rs[i].users_deny[k])]),
     groups_allow |-> PyList([k \in 1..Len(rs[i].groups_allow) |->
                                PyStr(rs[i].groups_allow[k])]),
     groups_deny |-> PyList([k \in 1..Len(rs[i].groups_deny) |->
                                PyStr(rs[i].groups_deny[k])])]

(***************************************************************************)
(* acl rule export (lines 179-204).                                        *)
(***************************************************************************)
\* The keys of the model in the order sort_keys=True writes them.
KeyOrder == <<"ban", "command", "kick", "mute">>

\* json.dump(export, file, sort_keys=True) read back by json.load: the
\* entries of the document in key order.
JsonDump(d) ==
    LET InDict(k) == k \in DOMAIN d
        keys == SelectSeq(KeyOrder, InDict)
    IN  [k \in 1..Len(keys) |-> [command |-> keys[k], attributes |-> d[keys[k]]]]

\* One pass of the loop of lines 188-193 for the rule at index i.
ExportStep(export, rs, i) ==
    LET rule_dict == DictDel(DictDel(DictDel(RuleToDict(rs, i), "id"),
                                     "command"), "guild_id")
    IN  DictSet(export, "command", rule_dict)

RECURSIVE ExportUpTo(_, _)
ExportUpTo(rs, n) ==
    IF n = 0 THEN EmptyDict ELSE ExportStep(ExportUpTo(rs, n - 1), rs, n)

\* The dict export after the loop of lines 186-193.
Export(rs) == ExportUpTo(rs, Len(rs))

(***************************************************************************)
(* import_rules (lines 305-363).                                           *)
(***************************************************************************)
Reasons == {"not bool", "not list", "not group", "not user id", "duplicate"}

ListKeywords == {"users_allow", "users_deny", "groups_allow", "groups_deny"}

\* Lines 327-350: the reasons the checks of one entry add the command to.
EntryReasons(attributes, acl_groups) ==
    {reason \in Reasons :
        \/ /\ reason = "not bool"
           /\ LET x == getattr(attributes, "default", PyBool(FALSE))
              IN  ~(PyEqualsBool(x, TRUE) \/ PyEqualsBool(x, FALSE))
        \/ /\ reason = "not list"
           /\ \E keyword \in ListKeywords :
                 getattr(attributes, keyword, PyList(<<>>)).t # "list"
        \/ /\ reason = "not group"
           /\ \E keyword \in {"groups_allow", "groups_deny"} :
                 \E group \in Range(PyIter(getattr(attributes, keyword, PyList(<<>>)))) :
                     ~(group.t = "str" /\ group.s \in acl_groups)
        \/ /\ reason = "not user id"
           /\ \E keyword \in {"users_allow", "users_deny"} :
                 \E user_id \in Range(PyIter(getattr(attributes, keyword, PyList(<<>>)))) :
                     user_id.t # "int"}

\* import_rules without the lookup of lines 356-358: an existing rule is
\* written over in every mode.
ImportEntryNoDuplicateCheck(st, command, attributes, mode, acl_groups) ==
    LET why == EntryReasons(attributes, acl_groups)
        rej == [r \in Reasons |->
                   IF r \in why THEN st.result_rej[r] \cup {command}
                   ELSE st.result_rej[r]]
    IN  IF why # {}
        THEN [st EXCEPT !.result_rej = rej]
        ELSE [st EXCEPT !.rules =
                  RuleAdd(st.rules, command,
                          getattr(attributes, "default", PyBool(FALSE)).b)]

\* One pass of the loop of lines 324-363 for one entry of the document.
\* st holds the store and the locals result_rej (result_new and result_upd
\* are never written).
ImportEntry(st, command, attributes, mode, acl_groups) ==
    LET why == EntryReasons(attributes, acl_groups)
        rej == [r \in Reasons |->
                   IF r \in why THEN st.result_rej[r] \cup {command}
                   ELSE st.result_rej[r]]
    IN  IF why # {}
        THEN [st EXCEPT !.result_rej = rej]
        ELSE IF RuleGet(st.rules, command) # 0 /\ mode # "replace"
        THEN [st EXCEPT !.result_rej["duplicate"] = @ \cup {command}]
        ELSE [st EXCEPT !.rules =
                  RuleAdd(st.rules, command,
                          getattr(attributes, "default", PyBool(FALSE)).b)]

RECURSIVE ImportUpTo(_, _, _, _, _)
ImportUpTo(rs, data, mode, acl_groups, n) ==
    IF n = 0
    THEN [rules |-> rs, result_new |-> <<>>, result_upd |-> <<>>,
          result_rej |-> [r \in Reasons |-> {}]]
    ELSE ImportEntry(ImportUpTo(rs, data, mode, acl_groups, n - 1),
                     data[n].command, data[n].attributes, mode, acl_groups)

\* The store and the locals when import_rules falls off its end.
ImportRules(rs, gs, data, mode) ==
    ImportUpTo(rs, data, mode, {gs[i].name : i \in 1..Len(gs)}, Len(data))

(***************************************************************************)
(* The rule commands (lines 175-276).                                      *)
(***************************************************************************)
NoLocals ==
    [result_new |-> <<>>, result_upd |-> <<>>,
     result_rej |-> [r \in Reasons |-> {}]]

RuleReply(op, status, count) ==
    [op |-> op, status |-> status, count |-> count, data |-> <<>>,
     mode |-> "", locals |-> NoLocals]

\* Lines 185-204: the body of acl_rule_export.
ExportBody == artifact' = JsonDump(Export(rules))

acl_rule_export ==
    /\ pc = "idle"
    /\ ExportBody
    /\ reply' = RuleReply("export", "exported", Len(rules))
    /\ UNCHANGED <<groups, rules, pc, queue, visited, children, level, auth>>

acl_rule_remove(command) ==
    /\ pc = "idle"
    /\ rules' = RuleRemove(rules, command)
    /\ reply' = IF RuleRemoveCount(rules, command) < 1
                THEN RuleReply("remove", "none", 0)
                ELSE RuleReply("remove", "removed", 1)
    /\ UNCHANGED <<groups, pc, queue, visited, children, level, artifact,
                   auth>>

\* Lines 221-222: flush first runs the export command.
acl_rule_flush_export ==
    /\ pc = "idle"
    /\ ExportBody
    /\ pc' = "flush"
    /\ reply' = RuleReply("flush", "exported", Len(rules))
    /\ UNCHANGED <<groups, rules, queue, visited, children, level, auth>>

\* Lines 224-227: ACL_rule.remove_all and the reply.
acl_rule_flush_remove ==
    /\ pc = "flush"
    /\ rules' = <<>>
    /\ pc' = "idle"
    /\ reply' = RuleReply("flush", "flushed", Len(rules))
    /\ UNCHANGED <<groups, queue, visited, children, level, artifact,
                   auth>>

\* acl rule import (lines 229-276).  The call of line 252 passes the keyword
\* replace, which import_rules does not take: Python raises TypeError there
\* and the handler ends.
acl_rule_import(attachments, filename_is_json, decodes) ==
    /\ pc = "idle"
    /\ reply' = IF attachments # 1
                THEN RuleReply("import", "wrong file", 0)
                ELSE IF ~filename_is_json
                THEN RuleReply("import", "wrong json", 0)
                ELSE IF ~decodes
                THEN RuleReply("import", "bad json", 0)
                ELSE RuleReply("import", "TypeError", 0)
    /\ UNCHANGED <<groups, rules, pc, queue, visited, children, level,
                   artifact, auth>>

\* A call import_rules(guild_id, data, mode): the arguments are bound.
import_rules_call(data, mode) ==
    /\ pc = "idle"
    /\ pc' = "import"
    /\ reply' = [op |-> "import_rules", status |-> "called", count |-> 0,
                 data |-> data, mode |-> mode, locals |-> NoLocals]
    /\ UNCHANGED <<groups, rules, queue, visited, children, level, artifact,
                   auth>>

\* The body of import_rules (lines 316-363), run on the bound arguments.
\* It has no return statement: the caller gets None, and the reply keeps the
\* locals at its end.
import_rules ==
    /\ pc = "import"
    /\ LET end == ImportRules(rules, groups, reply.data, reply.mode)
       IN  /\ rules' = end.rules
           /\ reply' = [op |-> "import_rules", status |-> "None", count |-> 0,
                        data |-> <<>>, mode |-> reply.mode,
                        locals |-> [result_new |-> end.result_new,
                                    result_upd |-> end.result_upd,
                                    result_rej |-> end.result_rej]]
    /\ pc' = "idle"
    /\ UNCHANGED <<groups, queue, visited, children, level, artifact, auth>>

(***************************************************************************)
(* Inputs of the rule commands.                                            *)
(***************************************************************************)
StoreCommands == {"ban", "kick"}
DocCommands == {"ban", "kick"}
ModeInputs == {"add", "replace"}

\* The allow / deny lists and defaults of the rules found in the store.
RuleShapes ==
    {[default |-> FALSE, users_allow |-> <<>>, users_deny |-> <<>>,
      groups_allow |-> <<>>, groups_deny |-> <<>>],
     [default |-> FALSE, users_allow |-> <<>>, users_deny |-> <<42>>,
      groups_allow |-> <<"mod">>, groups_deny |-> <<>>],
     [default |-> TRUE, users_allow |-> <<42>>, users_deny |-> <<>>,
      groups_allow |-> <<>>, groups_deny |-> <<"mod">>]}

RuleRows ==
    {[command |-> c, default |-> sh.default, users_allow |-> sh.users_allow,
      users_deny |-> sh.users_deny, groups_allow |-> sh.groups_allow,
      groups_deny |-> sh.groups_deny] : c \in StoreCommands, sh \in RuleShapes}

DistinctCommands(seq) ==
    \A i, j \in 1..Len(seq) : i # j => seq[i].command # seq[j].command

SeqsUpTo(S, n) == UNION {[1..k -> S] : k \in 0..n}

RuleStores == {rs \in SeqsUpTo(RuleRows, MaxRules) : DistinctCommands(rs)}

\* The attributes of the entries of the documents given to import_rules.
AttributeInputs ==
    {EmptyDict,
     ("default" :> PyBool(TRUE)) @@ ("groups_allow" :> PyList(<<PyStr("ghost")>>)),
     ("default" :> PyStr("yes")) @@ ("users_allow" :> PyInt(42)),
     ("users_deny" :> PyList(<<PyStr("42")>>)),
     ("default" :> PyBool(TRUE)) @@ ("users_deny" :> PyList(<<PyInt(42)>>))
         @@ ("groups_allow" :> PyList(<<PyStr("mod")>>))}

DocEntries ==
    {[command |-> c, attributes |-> a] : c \in DocCommands, a \in AttributeInputs}

\* JSON objects: the keys of a document are distinct.
DocInputs == {d \in SeqsUpTo(DocEntries, MaxDoc) : DistinctCommands(d)}

\* The groups of the guild while the rule commands are checked.
RuleGroups ==
    <<[name |-> "admin", parent |-> None, role_id |-> 111],
      [name |-> "mod", parent |-> "admin", role_id |-> 111]>>

RuleInit ==
    /\ groups = RuleGroups
    /\ rules \in RuleStores
    /\ pc = "idle"
    /\ queue = <<>>
    /\ visited = <<>>
    /\ children = <<>>
    /\ level = <<>>
    /\ reply = RuleReply("none", "none", 0)
    /\ artifact = <<>>
    /\ auth = NoAuth

RemoveRule == \E c \in StoreCommands \cup {"command"} : acl_rule_remove(c)

ImportCommand == \E n \in 0..2, j \in BOOLEAN, d \in BOOLEAN :
    acl_rule_import(n, j, d)

\* import_rules on a document of the inputs, or on the exported file.
ImportRulesCall == \E d \in DocInputs \cup {artifact}, m \in ModeInputs :
    import_rules_call(d, m)

RuleNext ==
    \/ acl_rule_export
    \/ RemoveRule
    \/ acl_rule_flush_export
    \/ acl_rule_flush_remove
    \/ ImportCommand
    \/ ImportRulesCall
    \/ import_rules

SpecRules == RuleInit /\ [][RuleNext]_vars

(***************************************************************************)
(* Properties of the group commands.                                       *)
(***************************************************************************)
\* A listing has just been sent; groups is the list it was built from.
Listed == reply.op = "list" /\ reply.status = "listed"

\* Index of the parent of the group at index i, 0 when it has none in the list.
ParentIndex(gs, i) == IF gs[i].parent = None THEN 0 ELSE GroupGet(gs, gs[i].parent)

\* The k-th ancestor of the group at index i, 0 when the chain ends before.
RECURSIVE AncestorIndex(_, _, _)
AncestorIndex(gs, i, k) ==
    IF k = 0 \/ i = 0 THEN i ELSE AncestorIndex(gs, ParentIndex(gs, i), k - 1)

\* a is a proper ancestor of d.
IsAncestor(gs, a, d) == \E k \in 1..Len(gs) : AncestorIndex(gs, d, k) = a

NoParentCycle(gs) == \A i \in 1..Len(gs) : ~IsAncestor(gs, i, i)

\* Some parent names no group of the list.
DanglingParent(gs) ==
    \E i \in 1..Len(gs) : gs[i].parent # None /\ ParentIndex(gs, i) = 0

\* The rows of the listing that show the group at index i.
RowsOf(i) == {k \in 1..Len(reply.listing) : reply.listing[k].name = groups[i].name}

RowOf(i) == CHOOSE k \in RowsOf(i) : TRUE

EachGroupOnce == \A i \in 1..Len(groups) : Cardinality(RowsOf(i)) = 1

\* C5: for a group list without parent cycles, in any order, the listing
\* gives every root level 0 and every other group the level of its parent
\* plus 1, and shows each group exactly once.
C5_LevelsFollowParents ==
    (Listed /\ NoParentCycle(groups)) =>
        /\ EachGroupOnce
        /\ \A i \in 1..Len(groups) :
              /\ groups[i].parent = None => reply.listing[RowOf(i)].level = 0
              /\ ParentIndex(groups, i) # 0 =>
                    reply.listing[RowOf(i)].level =
                        reply.listing[RowOf(ParentIndex(groups, i))].level + 1

\* C8: every stored group name matches [a-zA-Z-]+ in full, whatever add,
\* update and remove commands were given.
C8_StoredNamesMatch ==
    \A i \in 1..Len(groups) : FullMatchName(groups[i].name)

\* C9: the listing is a pre-order traversal: a group whose parent is listed
\* comes after its parent, and the descendants of a group fill the rows
\* directly after it.
C9_ListingIsPreOrder ==
    (Listed /\ NoParentCycle(groups)) =>
        /\ EachGroupOnce
        /\ \A i \in 1..Len(groups) :
              ParentIndex(groups, i) # 0 =>
                  RowOf(ParentIndex(groups, i)) < RowOf(i)
        /\ \A i \in 1..Len(groups) :
              LET desc == {d \in 1..Len(groups) : IsAncestor(groups, i, d)}
              IN  {RowOf(d) : d \in desc} =
                      (RowOf(i) + 1)..(RowOf(i) + Cardinality(desc))

\* C10: the loop of bfs ends for every group list, also one with a parent
\* cycle or a parent that does not exist, and the listing then shows every
\* supplied group exactly once.
C10_BfsTerminatesOnce ==
    /\ [](Listed => (Len(reply.listing) = Len(groups) /\ EachGroupOnce))
    /\ (pc = "bfs") ~> (pc = "idle")

\* A listing was sent for three groups whose parents form a cycle, and one
\* for a list with a parent that does not exist is covered by the same run.
C10_Witness ==
    /\ Listed
    /\ Len(groups) = 3
    /\ \E i \in 1..Len(groups) : IsAncestor(groups, i, i)
    /\ DanglingParent(groups)

(***************************************************************************)
(* Properties of the rule commands.                                        *)
(***************************************************************************)
GroupNames == {groups[i].name : i \in 1..Len(groups)}

\* What an entry of a document is to be rejected for, read off its keys.
DocReasons(attributes) ==
    {reason \in Reasons :
        \/ /\ reason = "not bool"
           /\ "default" \in DOMAIN attributes
           /\ attributes["default"].t # "bool"
        \/ /\ reason = "not list"
           /\ \E keyword \in ListKeywords \cap DOMAIN attributes :
                 attributes[keyword].t # "list"
        \/ /\ reason = "not group"
           /\ \E keyword \in {"groups_allow", "groups_deny"} \cap DOMAIN attributes :
                 /\ attributes[keyword].t = "list"
                 /\ \E e \in Range(attributes[keyword].l) :
                       ~(e.t = "str" /\ e.s \in GroupNames)
        \/ /\ reason = "not user id"
           /\ \E keyword \in {"users_allow", "users_deny"} \cap DOMAIN attributes :
                 /\ attributes[keyword].t = "list"
                 /\ \E e \in Range(attributes[keyword].l) : e.t # "int"}

\* The stored rule of a command: a set with one row, or empty.
RuleRowsOf(rs, command) == {rs[i] : i \in {j \in 1..Len(rs) : rs[j].command = command}}

\* The fields of the rule at index i as a document shows them.
FieldsOf(rs, i) ==
    [default |-> PyBool(rs[i].default),
     users_allow |-> PyList([k \in 1..Len(rs[i].users_allow) |->
                               PyInt(rs[i].users_allow[k])]),
     users_deny |-> PyList([k \in 1..Len(rs[i].users_deny) |->
                               PyInt(rs[i].users_deny[k])]),
     groups_allow |-> PyList([k \in 1..Len(rs[i].groups_allow) |->
                               PyStr(rs[i].groups_allow[k])]),
     groups_deny |-> PyList([k \in 1..Len(rs[i].groups_deny) |->
                               PyStr(rs[i].groups_deny[k])])]

\* The exported document has exactly one entry per rule of rs, keyed by the
\* command of the rule and holding its fields.
ArtifactHolds(rs) ==
    /\ Len(artifact) = Len(rs)
    /\ \A i \in 1..Len(rs) :
          \E k \in 1..Len(artifact) :
              /\ artifact[k].command = rs[i].command
              /\ artifact[k].attributes = FieldsOf(rs, i)

\* A rule set up to the order of its rows and of its list members.
Canonical(rs) ==
    {[command |-> rs[i].command, default |-> rs[i].default,
      users_allow |-> Range(rs[i].users_allow),
      users_deny |-> Range(rs[i].users_deny),
      groups_allow |-> Range(rs[i].groups_allow),
      groups_deny |-> Range(rs[i].groups_deny)] : i \in 1..Len(rs)}

GroupRefsExist(rs) ==
    \A i \in 1..Len(rs) :
        Range(rs[i].groups_allow) \cup Range(rs[i].groups_deny) \subseteq GroupNames

\* C1: an entry of an import document that fails a check (default not a
\* boolean, a list not a list, an unknown group, a non-integer user) is
\* rejected with the matching reason, and no rule is created or changed for
\* its command.
C1_InvalidEntriesRejected ==
    [][import_rules =>
          \A k \in 1..Len(reply.data) :
              \A reason \in DocReasons(reply.data[k].attributes) :
                  /\ reply.data[k].command \in reply'.locals.result_rej[reason]
                  /\ RuleRowsOf(rules', reply.data[k].command) =
                         RuleRowsOf(rules, reply.data[k].command)]_vars

\* C3: the export of a guild has exactly one key per stored rule, the
\* command of the rule, with the fields of the rule without id, command and
\* guild id.
C3_ExportHasOneEntryPerRule ==
    (reply.op = "export" /\ reply.status = "exported") => ArtifactHolds(rules)

\* C4: exporting the rules and importing the exported document in replace
\* mode leaves a rule set equivalent to the original.
C4_RoundTrip ==
    [][(/\ import_rules
        /\ reply.data = JsonDump(Export(rules))
        /\ reply.mode = "replace"
        /\ GroupRefsExist(rules))
          => Canonical(rules') = Canonical(rules)]_vars

C7_FlushExportsThenDeletes ==
    /\ pc = "flush" => ArtifactHolds(rules)
    /\ (reply.op = "flush" /\ reply.status = "flushed") => rules = <<>>

(***************************************************************************)
(* The authorization decision (spec section 4.2).                          *)
(***************************************************************************)
UserIds == {7, 42}
AuthGroups == {"admin", "mod"}

\* authorize with the allow lists read before the deny lists.
authorize_allow_before_deny(rule, userId, userGroups) ==
    IF userId \in rule.usersAllow THEN TRUE
    ELSE IF userId \in rule.usersDeny THEN FALSE
    ELSE IF userGroups \cap rule.groupsAllow # {} THEN TRUE
    ELSE IF userGroups \cap rule.groupsDeny # {} THEN FALSE
    ELSE rule.default

\* authorize(rule, userId, userGroups): TRUE is allow, FALSE is deny.
authorize(rule, userId, userGroups) ==
    IF userId \in rule.usersDeny THEN FALSE
    ELSE IF userId \in rule.usersAllow THEN TRUE
    ELSE IF userGroups \cap rule.groupsDeny # {} THEN FALSE
    ELSE IF userGroups \cap rule.groupsAllow # {} THEN TRUE
    ELSE rule.default

AuthRules ==
    [command : {"kick"}, default : BOOLEAN,
     usersAllow : SUBSET UserIds, usersDeny : SUBSET UserIds,
     groupsAllow : SUBSET AuthGroups, groupsDeny : SUBSET AuthGroups]

AuthInit ==
    /\ groups = RuleGroups
    /\ rules = <<>>
    /\ pc = "idle"
    /\ queue = <<>>
    /\ visited = <<>>
    /\ children = <<>>
    /\ level = <<>>
    /\ reply = NoReply
    /\ artifact = <<>>
    /\ auth \in [asked : {FALSE}, rule : AuthRules, userId : UserIds,
                 userGroups : SUBSET AuthGroups, result : {FALSE}]

Authorize ==
    /\ ~auth.asked
    /\ auth' = [auth EXCEPT !.asked = TRUE,
                            !.result = authorize(auth.rule, auth.userId,
                                                 auth.userGroups)]
    /\ UNCHANGED <<groups, rules, pc, queue, visited, children, level, reply,
                   artifact>>

AuthNext == Authorize

SpecAuth == AuthInit /\ [][AuthNext]_vars

\* C2: authorize follows the precedence user-deny, user-allow, group-deny,
\* group-allow, default.
C2_AuthorizePrecedence ==
    auth.asked =>
        LET r == auth.rule
            inDeny == auth.userId \in r.usersDeny
            inAllow == auth.userId \in r.usersAllow
            grpDeny == \E g \in auth.userGroups : g \in r.groupsDeny
            grpAllow == \E g \in auth.userGroups : g \in r.groupsAllow
        IN  /\ inDeny => auth.result = FALSE
            /\ (~inDeny /\ inAllow) => auth.result = TRUE
            /\ (~inDeny /\ ~inAllow /\ grpDeny) => auth.result = FALSE
            /\ (~inDeny /\ ~inAllow /\ ~grpDeny /\ grpAllow) => auth.result = TRUE
            /\ (~inDeny /\ ~inAllow /\ ~grpDeny /\ ~grpAllow) =>
                   auth.result = r.default

\* The rule of "kick" denies user 42 and allows group "mod"; user 42, in
\* group "mod", has been refused.
C2_Witness ==
    /\ auth.asked
    /\ auth.rule.default = FALSE
    /\ auth.rule.usersDeny = {42}
    /\ auth.rule.groupsAllow = {"mod"}
    /\ auth.userId = 42
    /\ "mod" \in auth.userGroups
    /\ auth.result = FALSE

====
